---- MODULE Spec2Model ----
(***************************************************************************)
(* A model of PyInform's empirical distribution class, Dist                *)
(* (src/pyinform/pyinform.pyx), the Cython wrapper over the histogram of   *)
(* the inform C library.                                                   *)
(*                                                                         *)
(* The Python methods of Dist are the operators Dist_*; each returns the   *)
(* outcome of the call (normal return or the exception raised), the value  *)
(* returned and the value of self._c_dist after the call.  The C functions *)
(* inform_dist_* are declared in the wrapper (cdef extern) and implemented *)
(* in the C library; they are modelled from the specification of the       *)
(* distribution.  Counts stay far below 2^64 (MaxCount), so the unsigned   *)
(* 64-bit arithmetic of the histogram never wraps.                         *)
(*                                                                         *)
(* The variable last records the last call and the state before it, so     *)
(* that the contract of every operation is a state invariant.              *)
(*                                                                         *)
(* The second part models the time series functions of the same file       *)
(* (activeinfo, entropyrate, transferentropy): the checks and the base      *)
(* inference of the wrapper, the call of the C function and what the       *)
(* wrapper returns.  The variable ts holds one call from its arguments to  *)
(* its result; SpecTS is the specification of these calls.                 *)
(***************************************************************************)
EXTENDS Integers, Sequences, FiniteSets, TLC

\* Largest support size the operations are called with.
MaxSize == 2

\* Largest count of one event: set stores at most MaxCount, tick stops there.
MaxCount == 1

\* Time series: at most MaxRows realizations of at most MaxLen symbols,
\* MaxCells symbols in all, each symbol in 0..MaxSym.
MaxRows == 2
MaxLen == 4
MaxCells == 4
MaxSym == 2

\* History lengths 0..MaxK and alphabet bases 0..MaxBase are tried, and the
\* largest history length, UintMax.
MaxK == 2
MaxBase == 3

\* The largest value of a uint64_t, scaled down: uint64_t arithmetic is
\* modulo UintMax + 1.  Every length stays below it.
UintMax == 15

\* The Python references a caller holds: a distribution and a second one
\* (a copy or another construction).
Objs == {"d", "c"}

VARIABLES
    live,      \* the references that hold a Dist object
    c_dist,    \* the inform_dist structs, each named after the object whose
               \* constructor allocated it
    ptr,       \* Dist._c_dist of each object: the struct it points to
    last,      \* the last call: operation, object, arguments, outcome, return
               \* value, and live / c_dist as they were before the call
    ts,        \* the call of a time series function: arguments, position in
               \* the C function, result
    acc        \* an accumulation made with Dist.tick in any order: the
               \* ensemble, the observations still to make, the tables

vars == <<live, c_dist, ptr, last, ts, acc>>
distvars == <<live, c_dist, ptr, last>>

-----------------------------------------------------------------------------
(* The C histogram: inform_dist.                                           *)

\* The null pointer.
NULL == [null |-> TRUE, size |-> 0, histogram |-> <<>>, counts |-> 0]

RECURSIVE SumTo(_, _)
\* histogram[0] + ... + histogram[n-1]
SumTo(h, n) == IF n = 0 THEN 0 ELSE h[n - 1] + SumTo(h, n - 1)

\* mem: whether the allocator can serve the request.
inform_dist_alloc(n, mem) ==
    IF n = 0 \/ ~mem
    THEN NULL
    ELSE [null |-> FALSE, size |-> n,
          histogram |-> [i \in 0..(n - 1) |-> 0], counts |-> 0]

inform_dist_realloc(dist, n, mem) ==
    IF dist.null THEN inform_dist_alloc(n, mem)
    ELSE IF dist.size = n THEN dist
    ELSE IF n = 0 \/ ~mem THEN NULL
    ELSE LET h == [i \in 0..(n - 1) |->
                     IF i < dist.size THEN dist.histogram[i] ELSE 0]
         IN [null |-> FALSE, size |-> n, histogram |-> h,
             counts |-> IF n < dist.size THEN SumTo(h, n) ELSE dist.counts]

inform_dist_copy(src, dest) ==
    IF src.null THEN dest ELSE src

inform_dist_size(dist) == IF dist.null THEN 0 ELSE dist.size

inform_dist_counts(dist) == IF dist.null THEN 0 ELSE dist.counts

inform_dist_is_valid(dist) == ~dist.null /\ dist.size > 0 /\ dist.counts > 0

inform_dist_get(dist, event) ==
    IF dist.null \/ event >= dist.size THEN 0 ELSE dist.histogram[event]

\* The distribution after inform_dist_set.
inform_dist_set(dist, event, value) ==
    IF dist.null \/ event >= dist.size THEN dist
    ELSE [dist EXCEPT !.histogram[event] = value,
                      !.counts = (dist.counts - dist.histogram[event]) + value]

\* The distribution after inform_dist_tick; the call returns the new count
\* of the event, inform_dist_get of the result.
inform_dist_tick(dist, event) ==
    IF dist.null \/ event >= dist.size THEN dist
    ELSE [dist EXCEPT !.histogram[event] = @ + 1, !.counts = @ + 1]

\* A probability is the fraction <<numerator, denominator>>.
inform_dist_prob(dist, event) ==
    IF ~inform_dist_is_valid(dist) \/ event >= dist.size
    THEN <<0, 1>>
    ELSE <<dist.histogram[event], dist.counts>>

\* m: the number of probabilities written, or a negative error code.
inform_dist_dump(dist, n) ==
    IF ~inform_dist_is_valid(dist) \/ n /= dist.size
    THEN [m |-> -1, probs |-> <<>>]
    ELSE [m |-> n,
          probs |-> [i \in 0..(n - 1) |-> <<dist.histogram[i], dist.counts>>]]

-----------------------------------------------------------------------------
(* The Python class Dist.                                                  *)

\* An exception leaves self._c_dist as it is and returns nothing.
Raise(exc, self) == [outcome |-> exc, ret |-> <<>>, c_dist |-> self]

Return(value, self) == [outcome |-> "ok", ret |-> <<value>>, c_dist |-> self]

\* The arguments of the constructor: an integer or a list of counts.
IntArg(n) == [kind |-> "int", val |-> n]
ListArg(cs) == [kind |-> "list", val |-> cs]

\* Dist.__cinit__ rejecting only a negative support.
Dist_cinit_strict(n, mem) ==
    IF n.kind = "list" THEN Raise("TypeError", NULL)
    ELSE IF n.val < 0 THEN Raise("ValueError_support", NULL)
    ELSE LET p == inform_dist_alloc(n.val, mem)
         IN IF p.null THEN Raise("MemoryError", NULL)
            ELSE [outcome |-> "ok", ret |-> <<>>, c_dist |-> p]

\* Dist.__cinit__ allocating one event too few.
Dist_cinit_short(n, mem) ==
    IF n.kind = "list" THEN Raise("TypeError", NULL)
    ELSE IF n.val <= 0 THEN Raise("ValueError_support", NULL)
    ELSE LET p == inform_dist_alloc(n.val - 1, mem)
         IN IF p.null THEN Raise("MemoryError", NULL)
            ELSE [outcome |-> "ok", ret |-> <<>>, c_dist |-> p]

\* Dist.__cinit__(n).  A list is not ordered against 0 (TypeError).  When
\* __cinit__ raises, no object is created.
Dist_cinit(n, mem) ==
    IF n.kind = "list" THEN Raise("TypeError", NULL)
    ELSE IF n.val <= 0 THEN Raise("ValueError_support", NULL)
    ELSE LET p == inform_dist_alloc(n.val, mem)
         IN IF p.null THEN Raise("MemoryError", NULL)
            ELSE [outcome |-> "ok", ret |-> <<>>, c_dist |-> p]

Dist_len(self) == Return(inform_dist_size(self), self)

\* Dist.resize rejecting only a negative support.
Dist_resize_strict(self, n, mem) ==
    IF n < 0 THEN Raise("ValueError_support", self)
    ELSE LET p == inform_dist_realloc(self, n, mem)
         IN IF p.null THEN Raise("MemoryError", p)
            ELSE [outcome |-> "ok", ret |-> <<>>, c_dist |-> p]

\* Dist.resize allocating a fresh histogram instead of reallocating.
Dist_resize_fresh(self, n, mem) ==
    IF n <= 0 THEN Raise("ValueError_support", self)
    ELSE LET p == inform_dist_alloc(n, mem)
         IN IF p.null THEN Raise("MemoryError", p)
            ELSE [outcome |-> "ok", ret |-> <<>>, c_dist |-> p]

Dist_resize(self, n, mem) ==
    IF n <= 0 THEN Raise("ValueError_support", self)
    ELSE LET p == inform_dist_realloc(self, n, mem)
         IN IF p.null THEN Raise("MemoryError", p)
            ELSE [outcome |-> "ok", ret |-> <<>>, c_dist |-> p]

\* Dist.counts returning the size of the support.
Dist_counts_size(self) == Return(inform_dist_size(self), self)

Dist_counts(self) == Return(inform_dist_counts(self), self)

\* Dist.valid looking at the support only.
Dist_valid_support(self) == Return(inform_dist_size(self) > 0, self)

Dist_valid(self) == Return(inform_dist_is_valid(self), self)

\* An event is converted to uint64_t when it is passed to the C function:
\* a negative one raises OverflowError.
\* Dist.__getitem__ with the bounds check off by one.
Dist_getitem_loose(self, event) ==
    IF event > Dist_len(self).ret[1] THEN Raise("IndexError", self)
    ELSE IF event < 0 THEN Raise("OverflowError", self)
    ELSE Return(inform_dist_get(self, event), self)

Dist_getitem(self, event) ==
    IF event >= Dist_len(self).ret[1] THEN Raise("IndexError", self)
    ELSE IF event < 0 THEN Raise("OverflowError", self)
    ELSE Return(inform_dist_get(self, event), self)

RECURSIVE ListFrom(_, _)
\* list(d): Python reads d[i], d[i+1], ... until the first IndexError; any
\* other exception ends the call.
ListFrom(self, i) ==
    LET r == Dist_getitem(self, i)
    IN IF r.outcome = "IndexError" THEN Return(<<>>, self)
       ELSE IF r.outcome /= "ok" THEN Raise(r.outcome, self)
       ELSE LET rest == ListFrom(self, i + 1)
            IN IF rest.outcome /= "ok" THEN rest
               ELSE Return(<<r.ret[1]>> \o rest.ret[1], self)

Dist_list(self) == ListFrom(self, 0)

\* Dist.__setitem__ adding the value to the count.
Dist_setitem_add(self, event, value) ==
    IF event >= Dist_len(self).ret[1] THEN Raise("IndexError", self)
    ELSE IF event < 0 \/ value < 0 THEN Raise("OverflowError", self)
    ELSE [outcome |-> "ok", ret |-> <<>>,
          c_dist |-> inform_dist_set(self, event,
                                     inform_dist_get(self, event) + value)]

\* Dist.__setitem__ taking the value as a signed integer.
Dist_setitem_signed(self, event, value) ==
    IF event >= Dist_len(self).ret[1] THEN Raise("IndexError", self)
    ELSE IF event < 0 THEN Raise("OverflowError", self)
    ELSE [outcome |-> "ok", ret |-> <<>>,
          c_dist |-> inform_dist_set(self, event, value)]

\* Dist.__setitem__ with the bounds check off by one.
Dist_setitem_loose(self, event, value) ==
    IF event > Dist_len(self).ret[1] THEN Raise("IndexError", self)
    ELSE IF event < 0 \/ value < 0 THEN Raise("OverflowError", self)
    ELSE [outcome |-> "ok", ret |-> <<>>,
          c_dist |-> inform_dist_set(self, event, value)]

Dist_setitem(self, event, value) ==
    IF event >= Dist_len(self).ret[1] THEN Raise("IndexError", self)
    ELSE IF event < 0 \/ value < 0 THEN Raise("OverflowError", self)
    ELSE [outcome |-> "ok", ret |-> <<>>,
          c_dist |-> inform_dist_set(self, event, value)]

\* Dist.tick losing the observation: the new count is returned, not stored.
Dist_tick_lost(self, event) ==
    IF event >= Dist_len(self).ret[1] THEN Raise("IndexError", self)
    ELSE IF event < 0 THEN Raise("OverflowError", self)
    ELSE Return(inform_dist_get(self, event) + 1, self)

\* Dist.tick returning the count read before the observation.
Dist_tick_stale(self, event) ==
    IF event >= Dist_len(self).ret[1] THEN Raise("IndexError", self)
    ELSE IF event < 0 THEN Raise("OverflowError", self)
    ELSE Return(inform_dist_get(self, event), inform_dist_tick(self, event))

Dist_tick(self, event) ==
    IF event >= Dist_len(self).ret[1] THEN Raise("IndexError", self)
    ELSE IF event < 0 THEN Raise("OverflowError", self)
    ELSE LET p == inform_dist_tick(self, event)
         IN Return(inform_dist_get(p, event), p)

\* Dist.probability testing the bounds before the validity.
Dist_probability_boundsfirst(self, event) ==
    IF event >= Dist_len(self).ret[1] THEN Raise("IndexError", self)
    ELSE IF ~Dist_valid(self).ret[1] THEN Raise("ValueError_invalid", self)
    ELSE IF event < 0 THEN Raise("OverflowError", self)
    ELSE Return(inform_dist_prob(self, event), self)

\* Dist.probability without the validity check.
Dist_probability_unchecked(self, event) ==
    IF event >= Dist_len(self).ret[1] THEN Raise("IndexError", self)
    ELSE IF event < 0 THEN Raise("OverflowError", self)
    ELSE Return(inform_dist_prob(self, event), self)

Dist_probability(self, event) ==
    IF ~Dist_valid(self).ret[1] THEN Raise("ValueError_invalid", self)
    ELSE IF event >= Dist_len(self).ret[1] THEN Raise("IndexError", self)
    ELSE IF event < 0 THEN Raise("OverflowError", self)
    ELSE Return(inform_dist_prob(self, event), self)

Dist_dump(self) ==
    IF ~Dist_valid(self).ret[1] THEN Raise("ValueError_invalid", self)
    ELSE LET n == Dist_len(self).ret[1]
             r == inform_dist_dump(self, n)
         IN IF r.m /= n THEN Raise("RuntimeError", self)
            ELSE Return(r.probs, self)

\* The sum of p(e) * log(p(e) / q(e)) over the events with p(e) > 0, as a
\* double: a term with q(e) = 0 is infinite, and so is the sum.
shannon_relative_entropy(p, q) ==
    IF \E e \in 0..(inform_dist_size(p) - 1) :
          inform_dist_get(p, e) > 0 /\ inform_dist_get(q, e) = 0
    THEN "+inf"
    ELSE "finite"

\* relative_entropy returning whatever the sum is
relative_entropy_unfiltered(p, q) ==
    IF ~Dist_valid(p).ret[1] \/ ~Dist_valid(q).ret[1]
    THEN Raise("ValueError_invalid", p)
    ELSE Return(shannon_relative_entropy(p, q), p)

\* relative_entropy(p, q): on valid distributions only; a value that is not
\* finite is an error.
relative_entropy(p, q) ==
    IF ~Dist_valid(p).ret[1] \/ ~Dist_valid(q).ret[1]
    THEN Raise("ValueError_invalid", p)
    ELSE IF shannon_relative_entropy(p, q) /= "finite"
    THEN Raise("DomainError", p)
    ELSE Return(shannon_relative_entropy(p, q), p)

\* Dist.copy handing out the struct of self instead of filling its own.
Dist_copy_shallow(self, mem) ==
    LET d == Dist_cinit(IntArg(Dist_len(self).ret[1]), mem)
    IN IF d.outcome /= "ok"
       THEN [outcome |-> d.outcome, ret |-> <<>>, c_dist |-> NULL,
             shared |-> FALSE]
       ELSE [outcome |-> "ok", ret |-> <<>>, c_dist |-> self, shared |-> TRUE]

\* Dist.copy without the call of inform_dist_copy.
Dist_copy_empty(self, mem) ==
    LET d == Dist_cinit(IntArg(Dist_len(self).ret[1]), mem)
    IN [outcome |-> d.outcome, ret |-> <<>>, c_dist |-> d.c_dist,
        shared |-> FALSE]

\* Dist.copy(): c_dist is the struct of the new object d, allocated by its
\* own constructor and filled by inform_dist_copy; shared tells whether
\* d._c_dist is the very struct of self (never); self is not written.
Dist_copy(self, mem) ==
    LET d == Dist_cinit(IntArg(Dist_len(self).ret[1]), mem)
    IN IF d.outcome /= "ok"
       THEN [outcome |-> d.outcome, ret |-> <<>>, c_dist |-> NULL,
             shared |-> FALSE]
       ELSE [outcome |-> "ok", ret |-> <<>>,
             c_dist |-> inform_dist_copy(self, d.c_dist), shared |-> FALSE]

-----------------------------------------------------------------------------
(* Time series.  numpy.asarray(xs, dtype=uint64) is an array: its shape and *)
(* its symbols in row-major order (what ravel() gives).                    *)

RECURSIVE size(_)
\* the number of elements of an array of this shape
size(shape) == IF shape = <<>> THEN 1 ELSE Head(shape) * size(Tail(shape))

ndim(arr) == Len(arr.shape)

\* len(arr) of Python: the first dimension
PyLen(arr) == arr.shape[1]

RECURSIVE MaxSeq(_)
MaxSeq(xs) ==
    IF Len(xs) = 1 THEN xs[1]
    ELSE LET t == MaxSeq(Tail(xs)) IN IF xs[1] > t THEN xs[1] ELSE t

\* max(arr) and numpy.amax(arr), of an array that is not empty
amax(arr) == MaxSeq(arr.data)

max2(a, b) == IF a > b THEN a ELSE b

\* k + 1 and n - k in C, on uint64_t
uint64_add(a, b) == (a + b) % (UintMax + 1)
uint64_sub(a, b) == ((a - b) + (UintMax + 1)) % (UintMax + 1)

\* What a wrapper does with its arguments: it raises before any call of the
\* library, or it calls the C function cfun on n series of m symbols with
\* base b and history length k, to return a result of the given shape.
Fail(exc) == [invoke |-> FALSE, outcome |-> exc]

Invoke(cfun, ys, xs, n, m, b, k, local, shape) ==
    [invoke |-> TRUE, cfun |-> cfun, ys |-> ys, xs |-> xs, n |-> n, m |-> m,
     b |-> b, k |-> k, local |-> local, shape |-> shape]

\* activeinfo1d without the test of k == 0
activeinfo1d_nohistorytest(arr, k, b, local) ==
    IF PyLen(arr) < uint64_add(k, 1) \/ PyLen(arr) = 0
    THEN Fail("ValueError_short")
    ELSE Invoke(IF local THEN "inform_local_active_info"
                ELSE "inform_active_info",
                arr.data, <<>>, 1, PyLen(arr),
                IF b < 2 THEN max2(2, amax(arr) + 1) ELSE b, k, local,
                IF local THEN <<uint64_sub(PyLen(arr), k)>> ELSE <<>>)

activeinfo1d(arr, k, b, local) ==
    IF PyLen(arr) < uint64_add(k, 1) \/ PyLen(arr) = 0
    THEN Fail("ValueError_short")
    ELSE IF k = 0
    THEN Fail("ValueError_history")
    ELSE Invoke(IF local THEN "inform_local_active_info"
                ELSE "inform_active_info",
                arr.data, <<>>, 1, PyLen(arr),
                IF b < 2 THEN max2(2, amax(arr) + 1) ELSE b, k, local,
                IF local THEN <<uint64_sub(PyLen(arr), k)>> ELSE <<>>)

\* activeinfo2d passing the buffer as one series of shape[0]*shape[1] symbols
activeinfo2d_oneseries(arr, k, b, local) ==
    IF arr.shape[2] < uint64_add(k, 1) \/ arr.shape[1] = 0
    THEN Fail("ValueError_short")
    ELSE IF k = 0
    THEN Fail("ValueError_history")
    ELSE IF b < 2 /\ size(arr.shape) = 0
    THEN Fail("ValueError_numpy")
    ELSE IF local /\ arr.shape[2] - k < 0
    THEN Fail("ValueError_numpy")
    ELSE IF size(arr.shape) = 0
    THEN Fail("IndexError")
    ELSE Invoke(IF local THEN "inform_local_active_info"
                ELSE "inform_active_info",
                arr.data, <<>>, 1, arr.shape[1] * arr.shape[2],
                IF b < 2 THEN max2(2, amax(arr) + 1) ELSE b, k, local,
                IF local THEN <<arr.shape[1], arr.shape[2] - k>> ELSE <<>>)

\* shape[1] - k is Python arithmetic: a negative dimension is refused by
\* numpy.empty; numpy.amax refuses an empty array and &ys[0] an empty buffer.
activeinfo2d(arr, k, b, local) ==
    IF arr.shape[2] < uint64_add(k, 1) \/ arr.shape[1] = 0
    THEN Fail("ValueError_short")
    ELSE IF k = 0
    THEN Fail("ValueError_history")
    ELSE IF b < 2 /\ size(arr.shape) = 0
    THEN Fail("ValueError_numpy")
    ELSE IF local /\ arr.shape[2] - k < 0
    THEN Fail("ValueError_numpy")
    ELSE IF size(arr.shape) = 0
    THEN Fail("IndexError")
    ELSE Invoke(IF local THEN "inform_local_active_info"
                ELSE "inform_active_info",
                arr.data, <<>>, arr.shape[1], arr.shape[2],
                IF b < 2 THEN max2(2, amax(arr) + 1) ELSE b, k, local,
                IF local THEN <<arr.shape[1], arr.shape[2] - k>> ELSE <<>>)

\* activeinfo taking every array of two or more dimensions as an ensemble
activeinfo_no3d(xs, k, b, local) ==
    IF ndim(xs) = 0 THEN Fail("ValueError_empty")
    ELSE IF ndim(xs) = 1 THEN activeinfo1d(xs, k, b, local)
    ELSE activeinfo2d(xs, k, b, local)

activeinfo(xs, k, b, local) ==
    IF ndim(xs) = 0 THEN Fail("ValueError_empty")
    ELSE IF ndim(xs) = 1 THEN activeinfo1d(xs, k, b, local)
    ELSE IF ndim(xs) = 2 THEN activeinfo2d(xs, k, b, local)
    ELSE Fail("ValueError_ndim")

\* transferentropy1d with a local result as long as the series
transferentropy1d_longlocal(ys, xs, k, b, local) ==
    IF PyLen(ys) < uint64_add(k, 1) \/ PyLen(ys) = 0
    THEN Fail("ValueError_short")
    ELSE IF k = 0
    THEN Fail("ValueError_history")
    ELSE Invoke(IF local THEN "inform_local_transfer_entropy"
                ELSE "inform_transfer_entropy",
                ys.data, xs.data, 1, PyLen(ys),
                IF b < 2 THEN max2(2, max2(amax(xs) + 1, amax(ys) + 1)) ELSE b,
                k, local,
                IF local THEN <<PyLen(ys)>> ELSE <<>>)

transferentropy1d(ys, xs, k, b, local) ==
    IF PyLen(ys) < uint64_add(k, 1) \/ PyLen(ys) = 0
    THEN Fail("ValueError_short")
    ELSE IF k = 0
    THEN Fail("ValueError_history")
    ELSE Invoke(IF local THEN "inform_local_transfer_entropy"
                ELSE "inform_transfer_entropy",
                ys.data, xs.data, 1, PyLen(ys),
                IF b < 2 THEN max2(2, max2(amax(xs) + 1, amax(ys) + 1)) ELSE b,
                k, local,
                IF local THEN <<uint64_sub(PyLen(ys), k)>> ELSE <<>>)

\* transferentropy2d inferring the base from ys alone
transferentropy2d_ysbase(ys, xs, k, b, local) ==
    IF ys.shape[2] < uint64_add(k, 1) \/ ys.shape[1] = 0
    THEN Fail("ValueError_short")
    ELSE IF k = 0
    THEN Fail("ValueError_history")
    ELSE IF b < 2 /\ size(ys.shape) = 0
    THEN Fail("ValueError_numpy")
    ELSE IF local /\ ys.shape[2] - k < 0
    THEN Fail("ValueError_numpy")
    ELSE IF size(ys.shape) = 0
    THEN Fail("IndexError")
    ELSE Invoke(IF local THEN "inform_local_transfer_entropy"
                ELSE "inform_transfer_entropy",
                ys.data, xs.data, ys.shape[1], ys.shape[2],
                IF b < 2 THEN max2(2, amax(ys) + 1) ELSE b,
                k, local,
                IF local THEN <<ys.shape[1], ys.shape[2] - k>> ELSE <<>>)

transferentropy2d(ys, xs, k, b, local) ==
    IF ys.shape[2] < uint64_add(k, 1) \/ ys.shape[1] = 0
    THEN Fail("ValueError_short")
    ELSE IF k = 0
    THEN Fail("ValueError_history")
    ELSE IF b < 2 /\ size(ys.shape) = 0
    THEN Fail("ValueError_numpy")
    ELSE IF local /\ ys.shape[2] - k < 0
    THEN Fail("ValueError_numpy")
    ELSE IF size(ys.shape) = 0
    THEN Fail("IndexError")
    ELSE Invoke(IF local THEN "inform_local_transfer_entropy"
                ELSE "inform_transfer_entropy",
                ys.data, xs.data, ys.shape[1], ys.shape[2],
                IF b < 2 THEN max2(2, max2(amax(xs) + 1, amax(ys) + 1)) ELSE b,
                k, local,
                IF local THEN <<ys.shape[1], ys.shape[2] - k>> ELSE <<>>)

\* transferentropy testing the history length before the shapes
transferentropy_historyfirst(ys, xs, k, b, local) ==
    IF k = 0 THEN Fail("ValueError_history")
    ELSE IF ys.shape /= xs.shape THEN Fail("ValueError_shape")
    ELSE IF ndim(ys) = 1 THEN transferentropy1d(ys, xs, k, b, local)
    ELSE IF ndim(ys) = 2 THEN transferentropy2d(ys, xs, k, b, local)
    ELSE Fail("ValueError_ndim")

\* transferentropy comparing the numbers of dimensions only
transferentropy_ndimonly(ys, xs, k, b, local) ==
    IF ndim(ys) /= ndim(xs) THEN Fail("ValueError_shape")
    ELSE IF ndim(ys) = 1 THEN transferentropy1d(ys, xs, k, b, local)
    ELSE IF ndim(ys) = 2 THEN transferentropy2d(ys, xs, k, b, local)
    ELSE Fail("ValueError_ndim")

transferentropy(ys, xs, k, b, local) ==
    IF ys.shape /= xs.shape THEN Fail("ValueError_shape")
    ELSE IF ndim(ys) = 1 THEN transferentropy1d(ys, xs, k, b, local)
    ELSE IF ndim(ys) = 2 THEN transferentropy2d(ys, xs, k, b, local)
    ELSE Fail("ValueError_ndim")

\* entropyrate1d enlarging a supplied base that is not above every symbol
entropyrate1d_enlarge(arr, k, b, local) ==
    IF PyLen(arr) < uint64_add(k, 1) \/ PyLen(arr) = 0
    THEN Fail("ValueError_short")
    ELSE IF k = 0
    THEN Fail("ValueError_history")
    ELSE Invoke(IF local THEN "inform_local_entropy_rate"
                ELSE "inform_entropy_rate",
                arr.data, <<>>, 1, PyLen(arr),
                max2(IF b < 2 THEN 2 ELSE b, amax(arr) + 1), k, local,
                IF local THEN <<uint64_sub(PyLen(arr), k)>> ELSE <<>>)

entropyrate1d(arr, k, b, local) ==
    IF PyLen(arr) < uint64_add(k, 1) \/ PyLen(arr) = 0
    THEN Fail("ValueError_short")
    ELSE IF k = 0
    THEN Fail("ValueError_history")
    ELSE Invoke(IF local THEN "inform_local_entropy_rate"
                ELSE "inform_entropy_rate",
                arr.data, <<>>, 1, PyLen(arr),
                IF b < 2 THEN max2(2, amax(arr) + 1) ELSE b, k, local,
                IF local THEN <<uint64_sub(PyLen(arr), k)>> ELSE <<>>)

entropyrate2d(arr, k, b, local) ==
    IF arr.shape[2] < uint64_add(k, 1) \/ arr.shape[1] = 0
    THEN Fail("ValueError_short")
    ELSE IF k = 0
    THEN Fail("ValueError_history")
    ELSE IF b < 2 /\ size(arr.shape) = 0
    THEN Fail("ValueError_numpy")
    ELSE IF local /\ arr.shape[2] - k < 0
    THEN Fail("ValueError_numpy")
    ELSE IF size(arr.shape) = 0
    THEN Fail("IndexError")
    ELSE Invoke(IF local THEN "inform_local_entropy_rate"
                ELSE "inform_entropy_rate",
                arr.data, <<>>, arr.shape[1], arr.shape[2],
                IF b < 2 THEN max2(2, amax(arr) + 1) ELSE b, k, local,
                IF local THEN <<arr.shape[1], arr.shape[2] - k>> ELSE <<>>)

entropyrate(xs, k, b, local) ==
    IF ndim(xs) = 0 THEN Fail("ValueError_empty")
    ELSE IF ndim(xs) = 1 THEN entropyrate1d(xs, k, b, local)
    ELSE IF ndim(xs) = 2 THEN entropyrate2d(xs, k, b, local)
    ELSE Fail("ValueError_ndim")

\* The end of every one of the six functions: the local functions return an
\* error code and the array is returned when it is 0; the others return a
\* double, which is returned unless it is NaN.
ReturnValue(plan, cres) ==
    IF plan.local
    THEN IF cres.err /= 0
         THEN [outcome |-> "ValueError_computed", ret |-> <<>>]
         ELSE [outcome |-> "ok",
               ret |-> [shape |-> plan.shape, value |-> cres.value]]
    ELSE IF cres.value = "nan"
         THEN [outcome |-> "ValueError_computed", ret |-> <<>>]
         ELSE [outcome |-> "ok",
               ret |-> [shape |-> <<>>, value |-> cres.value]]

\* an array of this shape with the symbol v everywhere
Filled(shape, v) == [shape |-> shape, data |-> [i \in 1..size(shape) |-> v]]

\* no call yet
Idle ==
    [pc |-> "idle", f |-> "none", ys |-> Filled(<<>>, 0),
     xs |-> Filled(<<>>, 0), k |-> 0, b |-> 0, local |-> FALSE,
     plan |-> Fail("none"), row |-> 0, j |-> 0, states |-> <<>>,
     histories |-> <<>>, futures |-> <<>>, obs |-> <<>>,
     outcome |-> "none", ret |-> <<>>]

\* no accumulation yet
NoAccumulation ==
    [pc |-> "idle", dist |-> "none", arr |-> Filled(<<>>, 0), k |-> 0,
     b |-> 0, pending |-> {}, tables |-> <<>>, joint |-> NULL]

-----------------------------------------------------------------------------
(* The calls a program can make.                                           *)

Events == -1..MaxSize
Sizes == -1..MaxSize
Values == -1..MaxCount
CountLists == UNION {[1..n -> 0..MaxCount] : n \in 1..MaxSize}

Call(op, o, arg, val, r) ==
    [op |-> op, obj |-> o, arg |-> arg, val |-> val,
     outcome |-> r.outcome, ret |-> r.ret, live |-> live, c_dist |-> c_dist]

Init ==
    /\ live = {}
    /\ c_dist = [o \in Objs |-> NULL]
    /\ ptr = [o \in Objs |-> o]
    /\ last = [op |-> "init", obj |-> "d", arg |-> 0, val |-> 0,
               outcome |-> "ok", ret |-> <<>>, live |-> {},
               c_dist |-> [o \in Objs |-> NULL]]
    /\ ts = Idle
    /\ acc = NoAccumulation

\* o = Dist(n)
Construct(o, n, mem) ==
    /\ o \notin live
    /\ LET r == Dist_cinit(n, mem)
       IN /\ live' = IF r.outcome = "ok" THEN live \cup {o} ELSE live
          /\ c_dist' = [c_dist EXCEPT ![o] = r.c_dist]
          /\ last' = Call("construct", o, n, 0, r)
    /\ ptr' = [ptr EXCEPT ![o] = o]
    /\ UNCHANGED <<ts, acc>>

\* del o
Dealloc(o) ==
    /\ o \in live
    /\ live' = live \ {o}
    /\ c_dist' = [c_dist EXCEPT ![ptr[o]] = NULL]
    /\ ptr' = [ptr EXCEPT ![o] = o]
    /\ last' = Call("dealloc", o, 0, 0, Raise("ok", NULL))
    /\ UNCHANGED <<ts, acc>>

Length(o) ==
    /\ o \in live
    /\ last' = Call("len", o, 0, 0, Dist_len(c_dist[ptr[o]]))
    /\ UNCHANGED <<live, c_dist, ptr>>
    /\ UNCHANGED <<ts, acc>>

Resize(o, n, mem) ==
    /\ o \in live
    /\ LET r == Dist_resize(c_dist[ptr[o]], n, mem)
       IN /\ c_dist' = [c_dist EXCEPT ![ptr[o]] = r.c_dist]
          /\ last' = Call("resize", o, n, 0, r)
    /\ UNCHANGED <<live, ptr>>
    /\ UNCHANGED <<ts, acc>>

\* c = o.copy()
Copy(o, c, mem) ==
    /\ o \in live
    /\ c \notin live
    /\ LET r == Dist_copy(c_dist[ptr[o]], mem)
       IN /\ live' = IF r.outcome = "ok" THEN live \cup {c} ELSE live
          /\ ptr' = [ptr EXCEPT ![c] = IF r.shared THEN ptr[o] ELSE c]
          /\ c_dist' = IF r.shared THEN c_dist
                        ELSE [c_dist EXCEPT ![c] = r.c_dist]
          /\ last' = Call("copy", o, c, 0, r)
    /\ UNCHANGED <<ts, acc>>

Counts(o) ==
    /\ o \in live
    /\ last' = Call("counts", o, 0, 0, Dist_counts(c_dist[ptr[o]]))
    /\ UNCHANGED <<live, c_dist, ptr>>
    /\ UNCHANGED <<ts, acc>>

Valid(o) ==
    /\ o \in live
    /\ last' = Call("valid", o, 0, 0, Dist_valid(c_dist[ptr[o]]))
    /\ UNCHANGED <<live, c_dist, ptr>>
    /\ UNCHANGED <<ts, acc>>

GetItem(o, e) ==
    /\ o \in live
    /\ last' = Call("get", o, e, 0, Dist_getitem(c_dist[ptr[o]], e))
    /\ UNCHANGED <<live, c_dist, ptr>>
    /\ UNCHANGED <<ts, acc>>

SetItem(o, e, v) ==
    /\ o \in live
    /\ LET r == Dist_setitem(c_dist[ptr[o]], e, v)
       IN /\ c_dist' = [c_dist EXCEPT ![ptr[o]] = r.c_dist]
          /\ last' = Call("set", o, e, v, r)
    /\ UNCHANGED <<live, ptr>>
    /\ UNCHANGED <<ts, acc>>

Tick(o, e) ==
    /\ o \in live
    /\ e >= 0 => inform_dist_get(c_dist[ptr[o]], e) < MaxCount
    /\ LET r == Dist_tick(c_dist[ptr[o]], e)
       IN /\ c_dist' = [c_dist EXCEPT ![ptr[o]] = r.c_dist]
          /\ last' = Call("tick", o, e, 0, r)
    /\ UNCHANGED <<live, ptr>>
    /\ UNCHANGED <<ts, acc>>

Probability(o, e) ==
    /\ o \in live
    /\ last' = Call("probability", o, e, 0,
                    Dist_probability(c_dist[ptr[o]], e))
    /\ UNCHANGED <<live, c_dist, ptr>>
    /\ UNCHANGED <<ts, acc>>

Dump(o) ==
    /\ o \in live
    /\ last' = Call("dump", o, 0, 0, Dist_dump(c_dist[ptr[o]]))
    /\ UNCHANGED <<live, c_dist, ptr>>
    /\ UNCHANGED <<ts, acc>>

\* list(o)
List(o) ==
    /\ o \in live
    /\ last' = Call("list", o, 0, 0, Dist_list(c_dist[ptr[o]]))
    /\ UNCHANGED <<live, c_dist, ptr>>
    /\ UNCHANGED <<ts, acc>>

\* relative_entropy(o, q)
RelativeEntropy(o, q) ==
    /\ o \in live
    /\ q \in live
    /\ last' = Call("relative_entropy", o, q, 0,
                    relative_entropy(c_dist[ptr[o]], c_dist[ptr[q]]))
    /\ UNCHANGED <<live, c_dist, ptr>>
    /\ UNCHANGED <<ts, acc>>

Next ==
    \/ \E o \in Objs, n \in Sizes, mem \in BOOLEAN : Construct(o, IntArg(n), mem)
    \/ \E o \in Objs, cs \in CountLists : Construct(o, ListArg(cs), TRUE)
    \/ \E o \in Objs : Dealloc(o)
    \/ \E o \in Objs : Length(o)
    \/ \E o \in Objs, n \in Sizes, mem \in BOOLEAN : Resize(o, n, mem)
    \/ \E o \in Objs, c \in Objs, mem \in BOOLEAN : Copy(o, c, mem)
    \/ \E o \in Objs : Counts(o)
    \/ \E o \in Objs : Valid(o)
    \/ \E o \in Objs, e \in Events : GetItem(o, e)
    \/ \E o \in Objs, e \in Events, v \in Values : SetItem(o, e, v)
    \/ \E o \in Objs, e \in Events : Tick(o, e)
    \/ \E o \in Objs, e \in Events : Probability(o, e)
    \/ \E o \in Objs : Dump(o)
    \/ \E o \in Objs : List(o)
    \/ \E o \in Objs, q \in Objs : RelativeEntropy(o, q)

Spec == Init /\ [][Next]_vars

-----------------------------------------------------------------------------
(* The library behind the time series functions.  With n >= 1 series of    *)
(* m > k >= 1 symbols, all below the base b >= 2, a measure is a finite    *)
(* number and a local function returns 0.  Outside of that the library is  *)
(* not bound to anything: the result is any double, the code any int.      *)

InContract(plan) ==
    /\ plan.n >= 1
    /\ plan.k >= 1
    /\ plan.m > plan.k
    /\ plan.b >= 2
    /\ Len(plan.ys) = plan.n * plan.m
    /\ \A i \in 1..Len(plan.ys) : plan.ys[i] < plan.b
    /\ \A i \in 1..Len(plan.xs) : plan.xs[i] < plan.b

Doubles == {"finite", "nan", "+inf", "-inf"}

CResults(plan) ==
    IF InContract(plan) THEN {[err |-> 0, value |-> "finite"]}
    ELSE IF plan.local THEN [err : {0, 1}, value : Doubles]
    ELSE [err : {0}, value : Doubles]

RECURSIVE Pow(_, _)
Pow(b, k) == IF k = 0 THEN 1 ELSE b * Pow(b, k - 1)

RECURSIVE Encode(_, _, _, _)
\* the k symbols series[first .. first+k-1] (C indices) as a number in base b
Encode(series, first, k, b) ==
    IF k = 0 THEN 0
    ELSE Encode(series, first, k - 1, b) * b + series[first + k]

\* A distribution of the accumulation: its size and the counts of the
\* events observed so far (every other event has count 0); one more
\* observation of e; the number of observations.
Histogram(n) == [size |-> n, histogram |-> [e \in {} |-> 0]]

Observe(h, e) ==
    [h EXCEPT !.histogram = IF e \in DOMAIN @ THEN [@ EXCEPT ![e] = @ + 1]
                            ELSE @ @@ (e :> 1)]

RECURSIVE SumOver(_, _)
SumOver(f, S) ==
    IF S = {} THEN 0
    ELSE LET e == CHOOSE x \in S : TRUE IN f[e] + SumOver(f, S \ {e})

Total(h) == SumOver(h.histogram, DOMAIN h.histogram)

-----------------------------------------------------------------------------
(* The calls of the time series functions.                                 *)

Symbols == 0..MaxSym
Shapes1 == {<<m>> : m \in 0..MaxLen}
Shapes2 == {s \in {<<r, m>> : r \in 0..MaxRows, m \in 0..MaxLen} :
               s[1] * s[2] <= MaxCells}

ArraysOf(shape) ==
    {[shape |-> shape, data |-> d] : d \in [1..size(shape) -> Symbols]}

\* a scalar, the series, the ensembles, and an array of three dimensions
Arrays ==
    ArraysOf(<<>>) \cup UNION {ArraysOf(s) : s \in Shapes1 \cup Shapes2}
        \cup {[shape |-> <<1, 1, 1>>, data |-> <<0>>]}

\* The sources tried with a target ys: of its shape, filled with one symbol,
\* and of the shapes that have its symbols in another arrangement or one
\* more element in the first dimension.
Sources(ys) ==
    {Filled(ys.shape, v) : v \in Symbols}
        \cup {Filled(s, 0) :
                s \in ({<<size(ys.shape)>>, <<1, size(ys.shape)>>}
                         \cup (IF ndim(ys) = 0 THEN {}
                               ELSE {[ys.shape EXCEPT ![1] = @ + 1]}))
                      \ {ys.shape}}

HistoryLengths == (0..MaxK) \cup {UintMax}
Bases == 0..MaxBase

\* The wrapper has run up to its call of the library, or has raised.  The
\* active information functions start their accumulation.
Enter(f, ys, xs, k, b, local, plan) ==
    [Idle EXCEPT
       !.pc = IF ~plan.invoke THEN "done"
              ELSE IF f = "active_info" /\ InContract(plan) THEN "accumulate"
              ELSE "call",
       !.f = f, !.ys = ys, !.xs = xs, !.k = k, !.b = b, !.local = local,
       !.plan = plan,
       !.j = k,
       !.states = IF plan.invoke /\ f = "active_info" /\ InContract(plan)
                  THEN Histogram(Pow(plan.b, plan.k + 1)) ELSE <<>>,
       !.histories = IF plan.invoke /\ f = "active_info" /\ InContract(plan)
                     THEN Histogram(Pow(plan.b, plan.k)) ELSE <<>>,
       !.futures = IF plan.invoke /\ f = "active_info" /\ InContract(plan)
                   THEN Histogram(plan.b) ELSE <<>>,
       !.outcome = IF plan.invoke THEN "none" ELSE plan.outcome]

\* activeinfo(xs, k, b, local)
ActiveInfo ==
    /\ ts.pc = "idle"
    /\ \E xs \in Arrays, k \in HistoryLengths, b \in Bases, local \in BOOLEAN :
          ts' = Enter("active_info", xs, Filled(<<>>, 0), k, b, local,
                      activeinfo(xs, k, b, local))
    /\ UNCHANGED <<distvars, acc>>

\* entropyrate(xs, k, b, local)
EntropyRate ==
    /\ ts.pc = "idle"
    /\ \E xs \in Arrays, k \in HistoryLengths, b \in Bases, local \in BOOLEAN :
          ts' = Enter("entropy_rate", xs, Filled(<<>>, 0), k, b, local,
                      entropyrate(xs, k, b, local))
    /\ UNCHANGED <<distvars, acc>>

\* transferentropy(ys, xs, k, b, local)
TransferEntropy ==
    /\ ts.pc = "idle"
    /\ \E ys \in Arrays, k \in HistoryLengths, b \in Bases, local \in BOOLEAN :
          \E xs \in Sources(ys) :
             ts' = Enter("transfer_entropy", ys, xs, k, b, local,
                         transferentropy(ys, xs, k, b, local))
    /\ UNCHANGED <<distvars, acc>>

\* One step of the accumulation of the active information: the observation
\* at index j of series row, that is its k symbols before j and its symbol
\* at j, counted in the three histograms; then the next index, or the next
\* series.
Accumulate ==
    /\ ts.pc = "accumulate"
    /\ ts.row < ts.plan.n
    /\ LET p == ts.plan
           first == ts.row * p.m + ts.j - p.k
           next == ts.row * p.m + ts.j
           history == Encode(p.ys, first, p.k, p.b)
           future == p.ys[next + 1]
           state == history * p.b + future
       IN ts' = [ts EXCEPT
                   !.states = Observe(@, state),
                   !.histories = Observe(@, history),
                   !.futures = Observe(@, future),
                   !.obs = Append(@, [first |-> first, next |-> next,
                                      history |-> history,
                                      future |-> future]),
                   !.j = IF ts.j + 1 < p.m THEN ts.j + 1 ELSE p.k,
                   !.row = IF ts.j + 1 < p.m THEN ts.row ELSE ts.row + 1]
    /\ UNCHANGED <<distvars, acc>>

\* The C function returns and the wrapper returns or raises.
Finish(cres) ==
    /\ \/ ts.pc = "call"
       \/ ts.pc = "accumulate" /\ ts.row = ts.plan.n
    /\ cres \in CResults(ts.plan)
    /\ LET r == ReturnValue(ts.plan, cres)
       IN ts' = [ts EXCEPT !.pc = "done", !.outcome = r.outcome,
                           !.ret = r.ret]
    /\ UNCHANGED <<distvars, acc>>

NextTS ==
    \/ ActiveInfo
    \/ EntropyRate
    \/ TransferEntropy
    \/ Accumulate
    \/ \E cres \in [err : {0, 1}, value : Doubles] : Finish(cres)

SpecTS == Init /\ [][NextTS]_vars

-----------------------------------------------------------------------------
(* Accumulation in any order.  The observations of an ensemble are made    *)
(* with Dist.tick, one at a time in any order, into one table or into one  *)
(* table per partition, and the tables are merged at the end.              *)

\* the observations of an ensemble: <<row, i>> with k <= i < m
Observations(arr, k) ==
    {<<row, i>> : row \in 0..(arr.shape[1] - 1), i \in k..(arr.shape[2] - 1)}

\* The event an observation is in the joint distribution (history and next
\* symbol), in the distribution of the histories, in that of the next symbols.
EventOf(dist, arr, k, b, o) ==
    LET first == o[1] * arr.shape[2] + o[2] - k
        history == Encode(arr.data, first, k, b)
        future == arr.data[first + k + 1]
    IN IF dist = "states" THEN history * b + future
       ELSE IF dist = "histories" THEN history
       ELSE future

SizeOf(dist, k, b) ==
    IF dist = "states" THEN Pow(b, k + 1)
    ELSE IF dist = "histories" THEN Pow(b, k)
    ELSE b

\* the t-th observation in row-major order, t from 1
RowMajor(arr, k, t) ==
    <<(t - 1) \div (arr.shape[2] - k), k + ((t - 1) % (arr.shape[2] - k))>>

RECURSIVE Sequential(_, _, _, _, _)
\* the distribution after the first t observations in row-major order
Sequential(dist, arr, k, b, t) ==
    IF t = 0 THEN inform_dist_alloc(SizeOf(dist, k, b), TRUE)
    ELSE inform_dist_tick(Sequential(dist, arr, k, b, t - 1),
                          EventOf(dist, arr, k, b, RowMajor(arr, k, t)))

RECURSIVE Merged(_, _)
\* the first n tables merged: the counts of every event added up
Merged(tables, n) ==
    IF n = 1 THEN tables[1]
    ELSE LET a == Merged(tables, n - 1)
         IN [a EXCEPT
               !.histogram = [e \in DOMAIN a.histogram |->
                                 a.histogram[e] + tables[n].histogram[e]],
               !.counts = @ + tables[n].counts]

Ensembles ==
    {a \in UNION {ArraysOf(s) : s \in Shapes2} :
        a.shape[1] >= 1 /\ a.shape[2] >= 2}

Distributions == {"states", "histories", "futures"}

\* one table shared by all, or one table for each of two partitions
Partitionings == {1, 2}

\* The tables are made: Dist(size) for each.
AccStart ==
    /\ acc.pc = "idle"
    /\ \E arr \in Ensembles, k \in 1..MaxK, dist \in Distributions,
          n \in Partitionings :
          /\ arr.shape[2] > k
          /\ LET b == max2(2, amax(arr) + 1)
                 d == Dist_cinit(IntArg(SizeOf(dist, k, b)), TRUE).c_dist
             IN acc' = [pc |-> "ticking", dist |-> dist, arr |-> arr,
                        k |-> k, b |-> b,
                        pending |-> Observations(arr, k),
                        tables |-> [p \in 1..n |-> d], joint |-> NULL]
    /\ UNCHANGED <<distvars, ts>>

\* table.tick(event) for any observation not made yet, on any table
AccTick ==
    /\ acc.pc = "ticking"
    /\ \E o \in acc.pending, p \in DOMAIN acc.tables :
          LET r == Dist_tick(acc.tables[p],
                             EventOf(acc.dist, acc.arr, acc.k, acc.b, o))
          IN acc' = [acc EXCEPT !.pending = @ \ {o},
                                !.tables[p] = r.c_dist]
    /\ UNCHANGED <<distvars, ts>>

\* every observation is made: the tables are merged
AccMerge ==
    /\ acc.pc = "ticking"
    /\ acc.pending = {}
    /\ acc' = [acc EXCEPT !.pc = "merged",
                          !.joint = Merged(acc.tables, Len(acc.tables))]
    /\ UNCHANGED <<distvars, ts>>

NextAcc ==
    \/ AccStart
    \/ AccTick
    \/ AccMerge

SpecAcc == Init /\ [][NextAcc]_vars

-----------------------------------------------------------------------------
(* What a caller observes of a distribution.                               *)

len(c) == Dist_len(c).ret[1]
counts(c) == Dist_counts(c).ret[1]
valid(c) == Dist_valid(c).ret[1]
get(c, e) == Dist_getitem(c, e).ret[1]

\* The distribution the last call was made on, before and after the call.
PreD == last.c_dist[last.obj]
PostD == c_dist[last.obj]

RECURSIVE SumGet(_, _)
\* get(0) + ... + get(n-1)
SumGet(c, n) == IF n = 0 THEN 0 ELSE get(c, n - 1) + SumGet(c, n - 1)

RECURSIVE SumSeq(_)
SumSeq(cs) == IF cs = <<>> THEN 0 ELSE Head(cs) + SumSeq(Tail(cs))

Min(a, b) == IF a < b THEN a ELSE b

\* The probabilities of c are fractions of the same positive denominator
\* whose numerators add up to it: they sum to exactly 1.
ProbabilitiesSumToOne(c) ==
    /\ \A e \in 0..(len(c) - 1) :
          /\ Dist_probability(c, e).outcome = "ok"
          /\ Dist_probability(c, e).ret[1] = <<get(c, e), counts(c)>>
    /\ counts(c) > 0
    /\ SumGet(c, len(c)) = counts(c)

-----------------------------------------------------------------------------
(* The contract of Dist.                                                   *)

\* C1: for every event e with 0 <= e < len(d), tick(e) returns the new count
\* of e, which is get(e) read before the call plus 1, and the call increases
\* get(e) and counts() by exactly 1.
C1_TickReturnsNewCount ==
    (last.op = "tick" /\ last.arg >= 0 /\ last.arg < len(PreD)) =>
        /\ last.outcome = "ok"
        /\ last.ret = <<get(PreD, last.arg) + 1>>
        /\ get(PostD, last.arg) = get(PreD, last.arg) + 1
        /\ counts(PostD) = counts(PreD) + 1

C1_Witness ==
    /\ last.op = "tick"
    /\ last.outcome = "ok"
    /\ counts(PreD) > 0
    /\ last.ret = <<1>>

\* C2: after any sequence of construct, set, tick, resize and copy, counts()
\* is the sum of get(e) over the support, and the probabilities of a valid
\* distribution sum to exactly 1.
C2_CountsIsSumOfGets ==
    \A o \in live :
        /\ counts(c_dist[o]) = SumGet(c_dist[o], len(c_dist[o]))
        /\ valid(c_dist[o]) => ProbabilitiesSumToOne(c_dist[o])

C2_Witness ==
    /\ last.op = "resize"
    /\ last.outcome = "ok"
    /\ len(PostD) < len(PreD)
    /\ counts(PostD) < counts(PreD)
    /\ valid(PostD)

\* C3: in every reachable state valid() is true exactly when the support size
\* is > 0 and counts() > 0; a shrinking resize or a set(e, 0) that removes
\* the last observation makes valid() false again.
C3_ValidIffObserved ==
    /\ \A o \in live :
          valid(c_dist[o]) <=> (len(c_dist[o]) > 0 /\ counts(c_dist[o]) > 0)
    /\ (last.op \in {"resize", "set"} /\ last.outcome = "ok"
          /\ SumGet(PostD, len(PostD)) = 0) => ~valid(PostD)

C3_Witness ==
    /\ last.op = "resize"
    /\ last.outcome = "ok"
    /\ valid(PreD)
    /\ len(PostD) < len(PreD)
    /\ ~valid(PostD)

\* C4: for every event index e >= len(d), get(e), set(e, v) and tick(e) raise
\* IndexError; nothing is returned and nothing is written.
C4_OutOfRangeRejected ==
    (last.op \in {"get", "set", "tick"} /\ last.arg >= len(PreD)) =>
        /\ last.outcome = "IndexError"
        /\ last.ret = <<>>
        /\ c_dist = last.c_dist
        /\ live = last.live

C4_Witness ==
    /\ last.op = "set"
    /\ last.arg = len(PreD)
    /\ last.val > 0
    /\ counts(PreD) > 0
    /\ last.outcome = "IndexError"

\* C5: on a distribution with counts() = 0, probability(e) for every e and
\* dump() raise the invalid-distribution ValueError and return no number.
C5_InvalidDistributionRejected ==
    (last.op \in {"probability", "dump"} /\ counts(PreD) = 0) =>
        /\ last.outcome = "ValueError_invalid"
        /\ last.ret = <<>>

C5_Witness ==
    /\ last.op = "probability"
    /\ last.arg >= 0
    /\ last.arg < len(PreD)
    /\ counts(PreD) = 0
    /\ last.outcome = "ValueError_invalid"

\* C6: Dist(n) raises the support ValueError for every n <= 0, and no object
\* comes into existence.
C6_NonPositiveSupportRejected ==
    (last.op = "construct" /\ last.arg.kind = "int" /\ last.arg.val <= 0) =>
        /\ last.outcome = "ValueError_support"
        /\ last.obj \notin live
        /\ live = last.live
        /\ c_dist = last.c_dist

C6_Witness ==
    /\ last.op = "construct"
    /\ last.arg.kind = "int"
    /\ last.arg.val < 0
    /\ last.outcome = "ValueError_support"
    /\ live /= {}

\* C7: for every n > 0, the distribution Dist(n) returns has len() = n,
\* counts() = 0, get(e) = 0 for every e in [0, n), and is not valid.  (The
\* only other outcome is that the allocation fails.)
C7_ConstructEmpty ==
    (last.op = "construct" /\ last.arg.kind = "int" /\ last.arg.val > 0) =>
        /\ last.outcome \in {"ok", "MemoryError"}
        /\ last.outcome = "ok" =>
              /\ last.obj \in live
              /\ len(PostD) = last.arg.val
              /\ counts(PostD) = 0
              /\ \A e \in 0..(last.arg.val - 1) : get(PostD, e) = 0
              /\ ~valid(PostD)

C7_Witness ==
    /\ last.op = "construct"
    /\ last.outcome = "ok"
    /\ len(PostD) = MaxSize
    /\ ~valid(PostD)

\* C8: constructing a distribution from a list of non-negative counts yields
\* a distribution whose support size is the length of the list, whose get(e)
\* is the e-th count, whose counts() is the sum of the list, and which is
\* valid iff that sum is > 0.
C8_ConstructFromCounts ==
    (last.op = "construct" /\ last.arg.kind = "list") =>
        /\ last.outcome = "ok"
        /\ last.obj \in live
        /\ len(PostD) = Len(last.arg.val)
        /\ \A e \in 0..(Len(last.arg.val) - 1) :
              get(PostD, e) = last.arg.val[e + 1]
        /\ counts(PostD) = SumSeq(last.arg.val)
        /\ valid(PostD) <=> (SumSeq(last.arg.val) > 0)

\* C9: for every n2 > 0, a resize(n2) that returns sets len() to n2, keeps
\* get(e) for every e < min(n, n2), makes get(e) = 0 for every new index,
\* and touches no other distribution; no other operation changes len() of
\* any distribution.
C9_ResizeFrame ==
    /\ (last.op = "resize" /\ last.arg > 0) =>
          /\ last.outcome \in {"ok", "MemoryError"}
          /\ last.outcome = "ok" =>
                /\ len(PostD) = last.arg
                /\ \A e \in 0..(Min(len(PreD), last.arg) - 1) :
                      get(PostD, e) = get(PreD, e)
                /\ \A e \in len(PreD)..(last.arg - 1) : get(PostD, e) = 0
                /\ \A o \in Objs \ {last.obj} : c_dist[o] = last.c_dist[o]
    /\ (last.op \in {"len", "counts", "valid", "get", "set", "tick",
                     "probability", "dump", "copy"}) =>
          \A o \in last.live : len(c_dist[o]) = len(last.c_dist[o])

C9_Witness ==
    /\ last.op = "resize"
    /\ last.outcome = "ok"
    /\ len(PreD) > 0
    /\ len(PreD) < last.arg
    /\ counts(PreD) > 0

\* C10: resize(n2) raises the support ValueError for every n2 <= 0, and
\* len(), counts() and every get(e) are as before the call.
C10_ResizeNonPositiveRejected ==
    (last.op = "resize" /\ last.arg <= 0) =>
        /\ last.outcome = "ValueError_support"
        /\ c_dist = last.c_dist
        /\ live = last.live

C10_Witness ==
    /\ last.op = "resize"
    /\ last.arg = 0
    /\ last.outcome = "ValueError_support"
    /\ counts(PreD) > 0

\* The struct an object's _c_dist points to.
Obs(o) == c_dist[ptr[o]]

\* C11: copy() returns a distribution with the len(), counts() and get(e) of
\* the original at the time of the call, and a set, tick or resize applied
\* to one distribution leaves every other distribution as it was.
C11_CopyIndependent ==
    /\ (last.op = "copy" /\ last.outcome = "ok") =>
          /\ last.arg \in live
          /\ len(Obs(last.arg)) = len(PreD)
          /\ counts(Obs(last.arg)) = counts(PreD)
          /\ \A e \in 0..(len(PreD) - 1) : get(Obs(last.arg), e) = get(PreD, e)
          /\ Obs(last.obj) = PreD
    /\ (last.op \in {"set", "tick", "resize"}) =>
          \A o \in live \ {last.obj} : Obs(o) = last.c_dist[ptr[o]]

C11_Witness ==
    /\ last.op = "copy"
    /\ last.outcome = "ok"
    /\ len(PreD) = MaxSize
    /\ counts(PreD) > 0
    /\ get(Obs(last.arg), 0) > 0

\* C12: in every reachable state every count get(e) and counts() are
\* non-negative; set(e, v) with a negative v stores nothing.
C12_CountsNonNegative ==
    /\ \A o \in live :
          /\ counts(Obs(o)) >= 0
          /\ \A e \in 0..(len(Obs(o)) - 1) : get(Obs(o), e) >= 0
    /\ (last.op = "set" /\ last.val < 0) =>
          /\ last.outcome /= "ok"
          /\ c_dist = last.c_dist

C12_Witness ==
    /\ last.op = "set"
    /\ last.val < 0
    /\ last.arg >= 0
    /\ last.arg < len(PreD)
    /\ counts(PreD) > 0
    /\ last.outcome = "OverflowError"

\* C13: whenever construct, resize, get, set, tick, probability or dump
\* raises an error, the support size and all counts are as before the call
\* and the object remains usable.
C13_NoSideEffectOnError ==
    (last.op \in {"construct", "resize", "get", "set", "tick", "probability",
                  "dump"} /\ last.outcome /= "ok") =>
        /\ c_dist = last.c_dist
        /\ live = last.live


-----------------------------------------------------------------------------
(* What a caller observes of a call of a time series function.             *)

\* the number of realizations of a series or an ensemble, and their length
Rows(arr) == IF ndim(arr) = 1 THEN 1 ELSE arr.shape[1]
Cols(arr) == arr.shape[ndim(arr)]

IsSeries(arr) == ndim(arr) \in {1, 2}
IsEmpty(arr) == Rows(arr) = 0 \/ Cols(arr) = 0

\* the call has raised exc and the library was never called
Raised(exc) == ts.pc = "done" /\ ~ts.plan.invoke /\ ts.outcome = exc

\* source and target of a transfer entropy have the same shape
SameShape == ts.f = "transfer_entropy" => ts.ys.shape = ts.xs.shape

\* C14, as stated: with k = 0 every call on a series or an ensemble, empty
\* ones included, fails with the history length error, and the library is
\* never called.
C14_HistoryZeroRejected ==
    (ts.pc /= "idle" /\ ts.k = 0 /\ IsSeries(ts.ys)) =>
        Raised("ValueError_history")

\* C14: with k = 0 the library is never called; the call fails with the
\* history length error when the series is not empty (and, for the transfer
\* entropy, source and target have the same shape), with the too-short
\* error when it is empty, with the shape error when the shapes differ.
C14_HistoryZeroNonEmpty ==
    (ts.pc /= "idle" /\ ts.k = 0 /\ IsSeries(ts.ys)) =>
        Raised(IF ~SameShape THEN "ValueError_shape"
               ELSE IF IsEmpty(ts.ys) THEN "ValueError_short"
               ELSE "ValueError_history")

C14_Witness ==
    /\ ts.pc = "done" /\ ts.k = 0
    /\ ts.f = "active_info" /\ ts.ys.shape = <<MaxLen>>
    /\ Raised("ValueError_history")

\* C15, as stated: for every k >= 1 a call on a series of length 0 or less
\* than k + 1, or on an ensemble of such rows or of no row, fails with the
\* too-short error, and the library is never called.
C15_TooShortRejected ==
    (/\ ts.pc /= "idle" /\ ts.k >= 1 /\ IsSeries(ts.ys) /\ SameShape
     /\ (Cols(ts.ys) = 0 \/ Cols(ts.ys) < ts.k + 1 \/ Rows(ts.ys) = 0)) =>
        Raised("ValueError_short")

\* C16: a transfer entropy of a source and a target of different shapes
\* fails with the shape error, and the library is never called.
C16_ShapeMismatchRejected ==
    (ts.pc /= "idle" /\ ts.f = "transfer_entropy"
     /\ ts.ys.shape /= ts.xs.shape) =>
        Raised("ValueError_shape")

C16_Witness ==
    /\ ts.f = "transfer_entropy"
    /\ ts.ys.shape = <<2, 2>> /\ ts.xs.shape = <<3, 2>>
    /\ ts.k = 1
    /\ Raised("ValueError_shape")

\* C17: with valid inputs (k >= 1, every realization of length m >= k + 1,
\* at least one realization, equal shapes) the library is called; a local
\* result has m - k values for a series and r rows of m - k values for an
\* ensemble of r rows, any other result is a single scalar; the call
\* succeeds when every symbol is below the base.
C17_ResultShape ==
    (/\ ts.pc = "done" /\ IsSeries(ts.ys) /\ SameShape
     /\ ts.k >= 1 /\ Cols(ts.ys) >= ts.k + 1 /\ Rows(ts.ys) >= 1) =>
        /\ ts.plan.invoke
        /\ ts.outcome \in {"ok", "ValueError_computed"}
        /\ InContract(ts.plan) => ts.outcome = "ok"
        /\ ts.outcome = "ok" =>
              ts.ret.shape =
                 IF ~ts.local THEN <<>>
                 ELSE IF ndim(ts.ys) = 1 THEN <<Cols(ts.ys) - ts.k>>
                 ELSE <<Rows(ts.ys), Cols(ts.ys) - ts.k>>

C17_Witness ==
    /\ ts.pc = "done" /\ ts.outcome = "ok"
    /\ ts.f = "transfer_entropy" /\ ts.local
    /\ ts.ys.shape = <<MaxLen>> /\ ts.k = MaxK
    /\ ts.ret.shape = <<MaxLen - MaxK>>

\* the symbols of the whole input: every row, and source and target
AllSymbols ==
    IF ts.f = "transfer_entropy" THEN ts.ys.data \o ts.xs.data ELSE ts.ys.data

\* C18: when the base supplied is below 2, the base the library is called
\* with is max(2, M + 1), M the largest symbol of the whole input; it is at
\* least 2 and above every symbol.
C18_InferredBase ==
    (ts.pc /= "idle" /\ ts.plan.invoke /\ ts.b < 2) =>
        /\ ts.plan.b = max2(2, MaxSeq(AllSymbols) + 1)
        /\ ts.plan.b >= 2
        /\ \A i \in 1..Len(AllSymbols) : AllSymbols[i] < ts.plan.b

C18_Witness ==
    /\ ts.pc = "done" /\ ts.outcome = "ok"
    /\ ts.f = "transfer_entropy" /\ ts.b = 0
    /\ Rows(ts.ys) = 2 /\ ndim(ts.ys) = 2
    /\ amax(ts.ys) < MaxSym /\ amax(ts.xs) = MaxSym
    /\ ts.plan.b = MaxSym + 1

\* C19, as stated: a value that is returned is finite, be it the scalar or
\* an element of the local array.
C19_NonFiniteNeverReturned ==
    (ts.pc = "done" /\ ts.outcome = "ok") => ts.ret.value = "finite"

\* the observations of the accumulation made so far, by the index of their
\* next symbol in the flattened ensemble
Observed == {ts.obs[i].next : i \in 1..Len(ts.obs)}

\* C20: the active information of an ensemble of r rows of m symbols makes
\* one observation for every row and every index i with k <= i < m, each of
\* the k symbols before i in that row and the symbol at i: no window spans
\* two rows, and at the end the joint and the history distributions hold
\* r * (m - k) observations each.
C20_EnsembleObservations ==
    (/\ ts.f = "active_info" /\ ndim(ts.ys) = 2
     /\ ts.pc \in {"accumulate", "done"} /\ ts.plan.invoke
     /\ InContract(ts.plan)) =>
        LET r == Rows(ts.ys)
            m == Cols(ts.ys)
        IN /\ \A i \in 1..Len(ts.obs) :
                 /\ ts.obs[i].next - ts.obs[i].first = ts.k
                 /\ ts.obs[i].first \div m = ts.obs[i].next \div m
                 /\ ts.obs[i].future = ts.ys.data[ts.obs[i].next + 1]
                 /\ ts.obs[i].history =
                       Encode(ts.ys.data, ts.obs[i].first, ts.k, ts.plan.b)
           /\ Cardinality(Observed) = Len(ts.obs)
           /\ \A e \in DOMAIN ts.states.histogram : e < ts.states.size
           /\ \A e \in DOMAIN ts.histories.histogram : e < ts.histories.size
           /\ Total(ts.states) = Len(ts.obs)
           /\ Total(ts.histories) = Len(ts.obs)
           /\ ts.pc = "done" =>
                 /\ Observed = {row * m + i : row \in 0..(r - 1),
                                              i \in ts.k..(m - 1)}
                 /\ Len(ts.obs) = r * (m - ts.k)

C20_Witness ==
    /\ ts.pc = "done" /\ ts.outcome = "ok"
    /\ ts.f = "active_info" /\ ts.ys.shape = <<2, 2>> /\ ts.k = 1
    /\ Len(ts.obs) = 2
    /\ ts.obs[2].first = 2

\* C21: whatever the order in which the observations of an ensemble are
\* made with tick, in one table or in tables merged at the end, every event
\* has at the end the count that the accumulation in row-major order gives,
\* and the total is the same.
C21_OrderIndependent ==
    acc.pc = "merged" =>
        LET n == Cardinality(Observations(acc.arr, acc.k))
            s == Sequential(acc.dist, acc.arr, acc.k, acc.b, n)
        IN /\ len(acc.joint) = len(s)
           /\ counts(acc.joint) = counts(s)
           /\ counts(s) = n
           /\ \A e \in 0..(len(s) - 1) : get(acc.joint, e) = get(s, e)

C21_Witness ==
    /\ acc.pc = "merged"
    /\ acc.arr.shape = <<2, 2>> /\ acc.k = 1 /\ acc.dist = "states"
    /\ Len(acc.tables) = 2
    /\ counts(acc.tables[1]) = 1 /\ counts(acc.tables[2]) = 1
    /\ counts(acc.joint) = 2

\* the second distribution of the last call, before the call
PreQ == last.c_dist[last.arg]

C24_ListReadsEveryCount ==
    last.op = "list" =>
        /\ last.outcome = "ok"
        /\ Len(last.ret[1]) = len(PreD)
        /\ \A i \in 0..(len(PreD) - 1) : last.ret[1][i + 1] = get(PreD, i)
        /\ c_dist = last.c_dist

C24_Witness ==
    /\ last.op = "list"
    /\ len(PreD) = MaxSize
    /\ last.ret[1][1] = 0
    /\ last.ret[1][MaxSize] = MaxCount

\* C25: after set(e, v) with e < len() and v >= 0, get(e) is v, every other
\* count and len() are as before, and counts() has changed by v minus the
\* count e had.
C25_SetAlgebra ==
    (/\ last.op = "set" /\ last.arg >= 0 /\ last.arg < len(PreD)
     /\ last.val >= 0) =>
        /\ last.outcome = "ok"
        /\ get(PostD, last.arg) = last.val
        /\ \A e \in 0..(len(PreD) - 1) :
              e /= last.arg => get(PostD, e) = get(PreD, e)
        /\ len(PostD) = len(PreD)
        /\ counts(PostD) = (counts(PreD) + last.val) - get(PreD, last.arg)

C25_Witness ==
    /\ last.op = "set" /\ last.outcome = "ok"
    /\ len(PreD) = MaxSize
    /\ last.arg = 0 /\ get(PreD, 0) = MaxCount /\ last.val = 0
    /\ get(PreD, 1) = MaxCount
    /\ counts(PostD) = MaxCount

\* C26: on a distribution that is not valid probability(e) raises the
\* invalid-distribution error for every e, those at or past len() included;
\* IndexError is raised only on a valid distribution with e >= len().
C26_ValidityBeforeBounds ==
    last.op = "probability" =>
        /\ ~valid(PreD) => last.outcome = "ValueError_invalid"
        /\ last.outcome = "IndexError" =>
              valid(PreD) /\ last.arg >= len(PreD)
        /\ (valid(PreD) /\ last.arg >= len(PreD)) =>
              last.outcome = "IndexError"

C26_Witness ==
    /\ last.op = "probability"
    /\ len(PreD) = MaxSize /\ ~valid(PreD)
    /\ last.arg = MaxSize
    /\ last.outcome = "ValueError_invalid"

\* C23: an input of 0 dimensions or of 3 and more is rejected for its
\* dimensions (or, for the transfer entropy, its shapes) whatever k and the
\* base are, never for k or its length, and the library is never called; an
\* input of 1 or 2 dimensions is never rejected for its dimensions.
C23_DimensionsChecked ==
    ts.pc /= "idle" =>
        /\ ~IsSeries(ts.ys) =>
              \/ Raised("ValueError_empty") /\ ndim(ts.ys) = 0
              \/ Raised("ValueError_ndim")
              \/ Raised("ValueError_shape") /\ ~SameShape
        /\ IsSeries(ts.ys) =>
              ts.outcome \notin {"ValueError_empty", "ValueError_ndim"}

C23_Witness ==
    /\ ts.f = "active_info" /\ ndim(ts.ys) = 3
    /\ ts.k = 0 /\ ts.b = 0
    /\ Raised("ValueError_ndim")

\* C27: in the transfer entropy, shapes that differ are what is reported,
\* for every k, 0 included, and every length, too short or empty included:
\* the error is never the one of the history length or of a series too short.
C27_ShapeCheckedFirst ==
    (/\ ts.pc /= "idle" /\ ts.f = "transfer_entropy"
     /\ ts.ys.shape /= ts.xs.shape
     /\ (ts.k = 0 \/ ~IsSeries(ts.ys) \/ IsEmpty(ts.ys)
           \/ Cols(ts.ys) < ts.k + 1)) =>
        /\ ts.pc = "done"
        /\ ts.outcome \notin {"ValueError_history", "ValueError_short"}
        /\ ts.outcome = "ValueError_shape"

C27_Witness ==
    /\ ts.f = "transfer_entropy"
    /\ ts.ys.shape = <<0>> /\ ts.xs.shape = <<1>>
    /\ ts.k = 0
    /\ Raised("ValueError_shape")

\* a series as the ensemble of one row
AsRow(arr) == [shape |-> <<1, arr.shape[1]>>, data |-> arr.data]

\* what the function f does with these arguments
PlanOf(f, ys, xs, k, b, local) ==
    IF f = "active_info" THEN activeinfo(ys, k, b, local)
    ELSE IF f = "entropy_rate" THEN entropyrate(ys, k, b, local)
    ELSE transferentropy(ys, xs, k, b, local)

\* C28, as stated: a series and the ensemble of that one row are treated
\* alike for every k and base: both calls raise the same error, or both
\* call the same library function on 1 series of m symbols with the same
\* base, history length and buffers, for results of m - k and 1 x (m - k)
\* local values.
C28_FlatAsOneRow ==
    (/\ ts.pc /= "idle" /\ ndim(ts.ys) = 1
     /\ ts.f = "transfer_entropy" => ndim(ts.xs) = 1) =>
        LET p == ts.plan
            q == PlanOf(ts.f, AsRow(ts.ys), AsRow(ts.xs), ts.k, ts.b, ts.local)
        IN /\ p.invoke = q.invoke
           /\ ~p.invoke => p.outcome = q.outcome
           /\ p.invoke =>
                 /\ p.cfun = q.cfun
                 /\ p.n = 1 /\ q.n = 1
                 /\ p.m = q.m /\ p.b = q.b /\ p.k = q.k
                 /\ p.ys = q.ys /\ p.xs = q.xs
                 /\ p.local = q.local
                 /\ p.local => (p.shape = <<p.m - p.k>>
                                /\ q.shape = <<1, p.m - p.k>>)

\* C29: a supplied base b >= 2 is the base the library is called with,
\* whatever the symbols are; with valid k and shapes the library is called
\* even when a symbol is not below b.
C29_SuppliedBaseUnchanged ==
    (ts.pc /= "idle" /\ ts.b >= 2) =>
        /\ ts.plan.invoke => ts.plan.b = ts.b
        /\ (/\ IsSeries(ts.ys) /\ SameShape /\ ts.k >= 1
            /\ Cols(ts.ys) >= ts.k + 1 /\ Rows(ts.ys) >= 1) =>
              ts.plan.invoke

C29_Witness ==
    /\ ts.pc = "done" /\ ts.f = "entropy_rate"
    /\ ts.b = 2 /\ ndim(ts.ys) = 1
    /\ ts.plan.invoke /\ ts.plan.b = 2
    /\ amax(ts.ys) = MaxSym

\* C30, as stated: for every k from 1 to the largest uint64_t and every
\* series (or row) of length m <= k, the call is rejected as too short:
\* no result array is sized and the library is not called.
C30_TooShortOverWholeRange ==
    (/\ ts.pc /= "idle" /\ IsSeries(ts.ys) /\ SameShape
     /\ ts.k >= 1 /\ ts.k <= UintMax /\ Cols(ts.ys) <= ts.k) =>
        /\ Raised("ValueError_short")
        /\ ts.ret = <<>>

====
